---- MODULE Spec2Model ----
(***************************************************************************)
(* A model of the Dask startup-timing harness.                             *)
(*                                                                         *)
(*   SpecTimer      SchedulerWorkerTimer.run (time_scheduler_workers.py):  *)
(*                  scheduler and workers as separate processes.           *)
(*   SpecInProcess  run_timing_study / measure_cluster_startup             *)
(*                  (dask_timing_study.py) and time_local_cluster          *)
(*                  (time_local_cluster.py): in-process LocalCluster.      *)
(*   SpecStats      calculate_statistics (dask_timing_study.py),           *)
(*                  analyze_results and compare_configs                    *)
(*                  (analyze_results.py) on bounded result collections.    *)
(*                                                                         *)
(* The Dask library, the operating system and the child processes are the  *)
(* environment: every call into them is a nondeterministic choice over the *)
(* outcomes the call can have (it returns, or it raises).                  *)
(***************************************************************************)
EXTENDS Integers, Sequences, FiniteSets, TLC

VARIABLES
  \* ---- SchedulerWorkerTimer (time_scheduler_workers.py)
  pc,              \* position of run()
  n_workers,       \* self.n_workers
  output_json,     \* TRUE iff self.output_json is set
  port_foreign,    \* TRUE iff another process already accepts on localhost:8786
  scheduler_proc,  \* self.scheduler_proc: "None" or the state of the handle
  worker_procs,    \* self.worker_procs: the states of the handles, in spawn order
  attempt,         \* loop variable of the readiness poll
  probe_log,       \* outcome of every Client('localhost:8786') probe of the poll
  sleeps,          \* number of time.sleep(0.5) calls performed by the poll
  clients_open,    \* the control clients that are open
  results,         \* keys of self.results, in insertion order
  err,             \* the exception raised by the body of run(), "none" if none
  raised,          \* the exception that reaches the caller of run()
  cleanup_state,   \* "not_called", "running", "returned", "raised"
  ci,              \* index of the worker cleanup() is at
  term_log,        \* handles on which cleanup() attempted termination, in order
  cleanup_calls,   \* number of calls of cleanup()
  clock,           \* the clock time.time() reads in the timer
  t_marks,         \* the time.time() readings run() and its methods keep
  result_times,    \* the durations stored in self.results
  \* ---- in-process sessions (dask_timing_study.py, time_local_cluster.py)
  prog,            \* the program that runs: "timer", "study", "main", "local", "stats"
  ip_pc,           \* position of the in-process program
  ip_n_workers,    \* the n_workers argument
  n_runs,          \* the n_runs argument of run_timing_study
  run,             \* loop variable of run_timing_study
  study_results,   \* the results list of run_timing_study
  n_sessions,      \* number of calls of measure_cluster_startup
  timings,         \* the dictionary the running session fills
  marks,           \* the time.time() readings the running session keeps
  now,             \* the clock
  sessions,        \* per session: the state of its cluster, client and workers
  wait_flag,       \* the wait_for_workers argument of time_local_cluster
  ip_output,       \* TRUE iff time_local_cluster is given output_json
  ip_raised,       \* the exception that reaches the caller of time_local_cluster
  detailed,        \* TRUE iff dask_timing_study is given --detailed
  exit_code,       \* the exit code of dask_timing_study: "none" while it runs
  save_state,      \* the write of the --output file: "none", "saved", "failed"
  \* ---- aggregation (dask_timing_study.py, analyze_results.py)
  in_results,      \* the collection of results given to the aggregators
  stats_done,      \* the aggregators that have run
  statistics,      \* what calculate_statistics returned
  analysis,        \* what analyze_results reports per configuration and metric
  overall,         \* the total_time values of the overall summary
  ranking          \* the table compare_configs prints, in order

timerVars == <<pc, n_workers, output_json, port_foreign, scheduler_proc,
               worker_procs, attempt, probe_log, sleeps, clients_open, results,
               err, raised, cleanup_state, ci, term_log, cleanup_calls,
               clock, t_marks, result_times>>

clockVars == <<clock, t_marks, result_times>>

ipVars == <<ip_pc, ip_n_workers, n_runs, run, study_results, n_sessions,
            timings, marks, now, sessions, wait_flag, ip_output, ip_raised,
            detailed, exit_code, save_state>>

mainVars == <<detailed, exit_code, save_state>>

statsVars == <<in_results, stats_done, statistics, analysis, overall, ranking>>

nonTimerVars == <<prog, ipVars, statsVars>>

vars == <<timerVars, prog, ipVars, statsVars>>

\* d[k] = v of a Python dictionary.
Put(d, k, v) == [x \in (DOMAIN d) \cup {k} |-> IF x = k THEN v ELSE d[x]]

-----------------------------------------------------------------------------
(* Bounds of the model *)

MaxWorkers == 2
MaxRuns == 3
MaxResults == 3

(* Program constants *)

max_attempts == 30

-----------------------------------------------------------------------------
(* Process handles *)

Alive == {"Starting", "Running", "Terminating"}
Terminal == {"Terminated", "Killed"}

\* The handle of the scheduler in term_log; worker-i is i+1.
SchedulerId == 0

\* worker_proc.kill(): the forced kill, which may itself raise.
KillSwallowed(st, killfails) == [state |-> st, raised |-> FALSE]

Kill(st, killfails) ==
  IF killfails THEN [state |-> st, raised |-> TRUE]
               ELSE [state |-> "Killed", raised |-> FALSE]

\* One try/except block of cleanup(): send_signal(SIGTERM), wait(timeout=5),
\* and kill() in the handler of any exception of the two.
\* Popen.send_signal and Popen.wait return at once for a process that has exited.
TerminateHandle(st, sigfails, reacts, killfails) ==
  IF st \in Terminal THEN [state |-> st, raised |-> FALSE]
  ELSE IF sigfails THEN Kill(st, killfails)
  ELSE IF reacts THEN [state |-> "Terminated", raised |-> FALSE]
  ELSE Kill("Terminating", killfails)

\* Something accepts connections on localhost:8786.
Accepting == port_foreign \/ scheduler_proc \in {"Starting", "Running"}

-----------------------------------------------------------------------------
(* SchedulerWorkerTimer.run *)

\* The in-process programs do not run.
IdleInProcess ==
  /\ ip_pc = "idle"
  /\ ip_n_workers = 0
  /\ n_runs = 0
  /\ run = 0
  /\ study_results = <<>>
  /\ n_sessions = 0
  /\ timings = <<>>
  /\ marks = <<>>
  /\ now = 0
  /\ sessions = <<>>
  /\ wait_flag = FALSE
  /\ ip_output = FALSE
  /\ ip_raised = "none"
  /\ detailed = FALSE
  /\ exit_code = "none"
  /\ save_state = "none"

\* The aggregators do not run.
IdleStats ==
  /\ in_results = <<>>
  /\ stats_done = {}
  /\ statistics = <<>>
  /\ analysis = <<>>
  /\ overall = <<>>
  /\ ranking = <<>>

InitTimer ==
  /\ prog = "timer"
  /\ IdleInProcess
  /\ IdleStats
  /\ pc = "start_scheduler"
  /\ n_workers \in 0..MaxWorkers
  /\ output_json \in BOOLEAN
  /\ port_foreign \in BOOLEAN
  /\ scheduler_proc = "None"
  /\ worker_procs = <<>>
  /\ attempt = 0
  /\ probe_log = <<>>
  /\ sleeps = 0
  /\ clients_open = {}
  /\ results = <<>>
  /\ err = "none"
  /\ raised = "none"
  /\ cleanup_state = "not_called"
  /\ ci = 0
  /\ term_log = <<>>
  /\ cleanup_calls = 0
  /\ clock = 0
  /\ t_marks = <<>>
  /\ result_times = <<>>

\* The body of the try statement of run() raises e: control goes to the
\* finally clause.
NoFinally(e) == pc' = "raised" /\ err' = e /\ raised' = e

Finally(e) == pc' = "cleanup" /\ err' = e /\ raised' = raised

\* start_scheduler, up to the poll: Popen(['dask-scheduler', ...]).
StartScheduler ==
  /\ pc = "start_scheduler"
  /\ \E launched \in BOOLEAN :
       IF launched
       THEN /\ scheduler_proc' = "Starting"
            /\ pc' = "poll"
            /\ UNCHANGED <<err, raised>>
       ELSE /\ Finally("spawn_scheduler")
            /\ UNCHANGED scheduler_proc
  /\ attempt' = 0
  /\ t_marks' = Put(t_marks, "overall_start", clock)
  /\ UNCHANGED <<nonTimerVars, cleanup_calls, clock, result_times>>
  /\ UNCHANGED <<n_workers, output_json, port_foreign, worker_procs, probe_log,
                 sleeps, clients_open, results, cleanup_state, ci, term_log>>

\* `if attempt == max_attempts - 1`
IsFinalAttemptOffByOne(a) == a = max_attempts

IsFinalAttempt(a) == a = max_attempts - 1

\* One iteration of the poll of start_scheduler; on leaving the loop without
\* an exception, the rest of start_scheduler (the client is closed again).
Probe ==
  /\ pc = "poll"
  /\ attempt < max_attempts
  /\ \E ok \in BOOLEAN :
       /\ ok => Accepting
       /\ sleeps' = sleeps + 1
       /\ probe_log' = Append(probe_log, ok)
       /\ IF ok \/ (~IsFinalAttempt(attempt) /\ attempt + 1 = max_attempts)
          THEN /\ results' = Append(results, "scheduler_start_time")
               /\ scheduler_proc' =
                    IF ok /\ ~port_foreign THEN "Running" ELSE scheduler_proc
               /\ pc' = "start_workers"
               /\ attempt' = IF ok THEN attempt ELSE attempt + 1
               /\ UNCHANGED <<err, raised>>
          ELSE IF IsFinalAttempt(attempt)
          THEN /\ Finally("scheduler_timeout")
               /\ UNCHANGED <<results, scheduler_proc, attempt>>
          ELSE /\ attempt' = attempt + 1
               /\ UNCHANGED <<results, scheduler_proc, pc, err, raised>>
  /\ clock' = clock + 2
  /\ UNCHANGED <<nonTimerVars, cleanup_calls, t_marks, result_times>>
  /\ UNCHANGED <<n_workers, output_json, port_foreign, worker_procs,
                 clients_open, cleanup_state, ci, term_log>>

\* One iteration of the spawn loop of start_workers.
SpawnWorker ==
  /\ pc = "start_workers"
  /\ Len(worker_procs) < n_workers
  /\ \E launched \in BOOLEAN :
       IF launched
       THEN /\ worker_procs' = Append(worker_procs, "Starting")
            /\ UNCHANGED <<pc, err, raised>>
       ELSE /\ Finally("spawn_worker")
            /\ UNCHANGED worker_procs
  /\ UNCHANGED <<nonTimerVars, cleanup_calls, clockVars>>
  /\ UNCHANGED <<n_workers, output_json, port_foreign, scheduler_proc, attempt,
                 probe_log, sleeps, clients_open, results, cleanup_state, ci,
                 term_log>>

\* start_workers after the loop: Client('localhost:8786', timeout='5s').
ConnectWorkers ==
  /\ pc = "start_workers"
  /\ Len(worker_procs) = n_workers
  /\ \E connected \in BOOLEAN :
       /\ connected => Accepting
       /\ IF connected
          THEN /\ clients_open' = clients_open \cup {"start_workers"}
               /\ pc' = "wait_workers"
               /\ UNCHANGED <<err, raised>>
          ELSE /\ Finally("connect_failed")
               /\ UNCHANGED clients_open
  /\ clock' = clock + 1
  /\ UNCHANGED <<nonTimerVars, cleanup_calls, t_marks, result_times>>
  /\ UNCHANGED <<n_workers, output_json, port_foreign, scheduler_proc,
                 worker_procs, attempt, probe_log, sleeps, results,
                 cleanup_state, ci, term_log>>

\* client.wait_for_workers(n_workers, timeout=60) and the rest of start_workers.
WaitForWorkers ==
  /\ pc = "wait_workers"
  /\ \E ok \in BOOLEAN :
       /\ ok => /\ Accepting
                /\ \A i \in 1..Len(worker_procs) :
                     worker_procs[i] \in {"Starting", "Running"}
       /\ IF ok
          THEN /\ worker_procs' = [i \in 1..Len(worker_procs) |-> "Running"]
               /\ results' = Append(results, "workers_start_time")
               /\ clients_open' = clients_open \ {"start_workers"}
               /\ pc' = "task"
               /\ UNCHANGED <<err, raised>>
          ELSE /\ Finally("workers_timeout")
               /\ UNCHANGED <<worker_procs, results, clients_open>>
  /\ clock' = clock + 1
  /\ UNCHANGED <<nonTimerVars, cleanup_calls, t_marks, result_times>>
  /\ UNCHANGED <<n_workers, output_json, port_foreign, scheduler_proc, attempt,
                 probe_log, sleeps, cleanup_state, ci, term_log>>

\* test_task_execution, and total_time in run(). Every call that waits for
\* the cluster (Client(...), future.result(), client.gather, client.close())
\* takes one unit of time.
TestTaskExecution ==
  /\ pc = "task"
  /\ \E out \in {"connect_failed", "task_failed", "batch_failed", "ok"} :
       /\ out = "ok" => Accepting
       /\ CASE out = "connect_failed" ->
                 /\ Finally(out)
                 /\ clock' = clock + 1
                 /\ UNCHANGED <<clients_open, results, t_marks, result_times>>
            [] out = "task_failed" ->
                 /\ Finally(out)
                 /\ clients_open' = clients_open \cup {"test_task_execution"}
                 /\ clock' = clock + 2
                 /\ UNCHANGED <<results, t_marks, result_times>>
            [] out = "batch_failed" ->
                 /\ Finally(out)
                 /\ clients_open' = clients_open \cup {"test_task_execution"}
                 /\ results' = Append(results, "first_task_time")
                 /\ clock' = clock + 3
                 /\ t_marks' = Put(t_marks, "end_time", clock + 2)
                 /\ result_times' = Put(result_times, "first_task_time", 2)
            [] out = "ok" ->
                 /\ pc' = "save"
                 /\ results' = results \o <<"first_task_time",
                                            "batch_100_tasks_time", "total_time">>
                 /\ clock' = clock + 4
                 /\ t_marks' = Put(Put(t_marks, "end_time", clock + 2),
                                   "overall_end", clock')
                 /\ result_times' =
                      Put(Put(Put(result_times, "first_task_time", 2),
                              "batch_100_tasks_time", 1),
                          "total_time", clock' - t_marks["overall_start"])
                 /\ UNCHANGED <<clients_open, err, raised>>
  /\ UNCHANGED <<nonTimerVars, cleanup_calls>>
  /\ UNCHANGED <<n_workers, output_json, port_foreign, scheduler_proc,
                 worker_procs, attempt, probe_log, sleeps, cleanup_state, ci,
                 term_log>>

\* `if self.output_json:` json.dump(self.results, f); then the finally clause.
SaveResults ==
  /\ pc = "save"
  /\ \E saved \in BOOLEAN :
       /\ ~output_json => saved
       /\ IF saved THEN pc' = "cleanup" /\ UNCHANGED <<err, raised>>
                   ELSE Finally("save_failed")
  /\ UNCHANGED <<nonTimerVars, cleanup_calls, clockVars>>
  /\ UNCHANGED <<n_workers, output_json, port_foreign, scheduler_proc,
                 worker_procs, attempt, probe_log, sleeps, clients_open, results,
                 cleanup_state, ci, term_log>>

\* cleanup() is entered.
CleanupBegin ==
  /\ pc = "cleanup"
  /\ cleanup_state' = "running"
  /\ ci' = 1
  /\ pc' = "cleanup_workers"
  /\ cleanup_calls' = cleanup_calls + 1
  /\ UNCHANGED <<nonTimerVars, clockVars>>
  /\ UNCHANGED <<n_workers, output_json, port_foreign, scheduler_proc,
                 worker_procs, attempt, probe_log, sleeps, clients_open, results,
                 err, raised, term_log>>

\* One iteration of `for worker_proc in self.worker_procs`.
CleanupWorker ==
  /\ pc = "cleanup_workers"
  /\ ci <= Len(worker_procs)
  /\ \E sigfails, reacts, killfails \in BOOLEAN :
       LET r == TerminateHandle(worker_procs[ci], sigfails, reacts, killfails) IN
         /\ worker_procs' = [worker_procs EXCEPT ![ci] = r.state]
         /\ term_log' = Append(term_log, ci)
         /\ IF r.raised
            THEN /\ pc' = "raised"
                 /\ raised' = "kill_failed"
                 /\ cleanup_state' = "raised"
                 /\ UNCHANGED ci
            ELSE /\ ci' = ci + 1
                 /\ UNCHANGED <<pc, raised, cleanup_state>>
  /\ UNCHANGED <<nonTimerVars, cleanup_calls, clockVars>>
  /\ UNCHANGED <<n_workers, output_json, port_foreign, scheduler_proc, attempt,
                 probe_log, sleeps, clients_open, results, err>>

\* `if self.scheduler_proc:` and the return of cleanup(); run() then returns
\* self.results, or the exception of its body goes on to the caller.
CleanupScheduler ==
  /\ pc = "cleanup_workers"
  /\ ci > Len(worker_procs)
  /\ \E sigfails, reacts, killfails \in BOOLEAN :
       LET r == IF scheduler_proc = "None"
                THEN [state |-> "None", raised |-> FALSE]
                ELSE TerminateHandle(scheduler_proc, sigfails, reacts, killfails)
       IN
         /\ scheduler_proc' = r.state
         /\ term_log' = IF scheduler_proc = "None" THEN term_log
                        ELSE Append(term_log, SchedulerId)
         /\ IF r.raised
            THEN /\ pc' = "raised"
                 /\ raised' = "kill_failed"
                 /\ cleanup_state' = "raised"
            ELSE /\ pc' = IF err = "none" THEN "returned" ELSE "raised"
                 /\ raised' = err
                 /\ cleanup_state' = "returned"
  /\ UNCHANGED <<nonTimerVars, cleanup_calls, clockVars>>
  /\ UNCHANGED <<n_workers, output_json, port_foreign, worker_procs, attempt,
                 probe_log, sleeps, clients_open, results, err, ci>>

\* A child process exits on its own (a crash, or a scheduler that cannot bind
\* its port).
ProcessExits ==
  /\ pc \notin {"returned", "raised"}
  /\ \/ /\ scheduler_proc \in {"Starting", "Running"}
        /\ scheduler_proc' = "Terminated"
        /\ UNCHANGED worker_procs
     \/ \E i \in 1..Len(worker_procs) :
          /\ worker_procs[i] \in {"Starting", "Running"}
          /\ worker_procs' = [worker_procs EXCEPT ![i] = "Terminated"]
          /\ UNCHANGED scheduler_proc
  /\ UNCHANGED <<nonTimerVars, cleanup_calls, clockVars>>
  /\ UNCHANGED <<pc, n_workers, output_json, port_foreign, attempt, probe_log,
                 sleeps, clients_open, results, err, raised, cleanup_state, ci,
                 term_log>>

NextTimer ==
  \/ StartScheduler
  \/ Probe
  \/ SpawnWorker
  \/ ConnectWorkers
  \/ WaitForWorkers
  \/ TestTaskExecution
  \/ SaveResults
  \/ CleanupBegin
  \/ CleanupWorker
  \/ CleanupScheduler
  \/ ProcessExits

SpecTimer == InitTimer /\ [][NextTimer]_vars

\* The control thread of run() keeps executing: every call it makes returns or
\* raises (the probe has a 2 s timeout, wait() a 5 s timeout).
ControlThread ==
  \/ StartScheduler
  \/ Probe
  \/ SpawnWorker
  \/ ConnectWorkers
  \/ WaitForWorkers
  \/ TestTaskExecution
  \/ SaveResults
  \/ CleanupBegin
  \/ CleanupWorker
  \/ CleanupScheduler

FairSpecTimer == SpecTimer /\ WF_vars(ControlThread)

-----------------------------------------------------------------------------
(* cleanup() called twice in succession on one SchedulerWorkerTimer *)

HandleStates == {"Starting", "Running", "Terminated", "Killed"}

\* A timer whose handles are in any state: never spawned, running, exited.
InitCleanupTwice ==
  /\ prog = "cleanup_twice"
  /\ IdleInProcess
  /\ IdleStats
  /\ pc = "cleanup"
  /\ worker_procs \in UNION {[1..n -> HandleStates] : n \in 0..MaxWorkers}
  /\ n_workers = Len(worker_procs)
  /\ scheduler_proc \in {"None"} \cup HandleStates
  /\ output_json = FALSE
  /\ port_foreign = FALSE
  /\ attempt = 0
  /\ probe_log = <<>>
  /\ sleeps = 0
  /\ clients_open = {}
  /\ results = <<>>
  /\ err = "none"
  /\ raised = "none"
  /\ cleanup_state = "not_called"
  /\ ci = 0
  /\ term_log = <<>>
  /\ cleanup_calls = 0
  /\ clock = 0
  /\ t_marks = <<>>
  /\ result_times = <<>>

\* The caller calls cleanup() again after the first call has ended.
SecondCleanup ==
  /\ prog = "cleanup_twice"
  /\ pc \in {"returned", "raised"}
  /\ cleanup_calls = 1
  /\ pc' = "cleanup"
  /\ UNCHANGED <<nonTimerVars, cleanup_calls, clockVars>>
  /\ UNCHANGED <<n_workers, output_json, port_foreign, scheduler_proc,
                 worker_procs, attempt, probe_log, sleeps, clients_open, results,
                 err, raised, cleanup_state, ci, term_log>>

NextCleanupTwice ==
  \/ CleanupBegin
  \/ CleanupWorker
  \/ CleanupScheduler
  \/ SecondCleanup
  \/ ProcessExits

SpecCleanupTwice == InitCleanupTwice /\ [][NextCleanupTwice]_vars

-----------------------------------------------------------------------------
(* Claims about SchedulerWorkerTimer *)

RunEnded == pc \in {"returned", "raised"}

Range(s) == {s[i] : i \in 1..Len(s)}

\* start_scheduler returned a startup time: it reported the scheduler ready.
SchedulerReady == "scheduler_start_time" \in Range(results)

\* C1: run() never returns or raises without cleanup() having been executed,
\* and a failure of the body of run() reaches the caller only after cleanup().
C1_CleanupOnEveryExit ==
  /\ RunEnded => cleanup_state \in {"returned", "raised"}
  /\ raised # "none" => cleanup_state \in {"returned", "raised"}
  /\ err # "none" /\ cleanup_state = "not_called" => pc = "cleanup"

C1_Witness ==
  /\ pc = "raised"
  /\ raised = "workers_timeout"
  /\ cleanup_state = "returned"
  /\ Len(term_log) = 3

\* C3: whenever cleanup() returns, every handle owned by the timer is
\* Terminated or Killed.
C3_CleanupLeavesHandlesTerminal ==
  cleanup_state = "returned" =>
    /\ \A i \in 1..Len(worker_procs) : worker_procs[i] \in Terminal
    /\ scheduler_proc # "None" => scheduler_proc \in Terminal

C3_Witness ==
  /\ cleanup_state = "returned"
  /\ Len(worker_procs) = 2
  /\ worker_procs[1] = "Killed"
  /\ worker_procs[2] = "Terminated"
  /\ scheduler_proc = "Killed"

\* C4: no termination error propagates out of cleanup(), a failure on one
\* handle does not prevent the attempt on the remaining handles, and the
\* exception that reaches the caller of run() is that of the body of run().
C4_CleanupSwallowsTerminationErrors ==
  /\ cleanup_state # "raised"
  /\ RunEnded =>
       /\ \A i \in 1..Len(worker_procs) : i \in Range(term_log)
       /\ scheduler_proc # "None" => SchedulerId \in Range(term_log)
       /\ raised = err

\* C11: cleanup() called twice in succession raises no error on either call
\* and leaves every owned handle Terminated or Killed, whatever the state of
\* the handles.
C11_CleanupIdempotent ==
  /\ cleanup_state # "raised"
  /\ (cleanup_calls = 2 /\ cleanup_state = "returned") =>
       /\ \A i \in 1..Len(worker_procs) : worker_procs[i] \in Terminal
       /\ scheduler_proc # "None" => scheduler_proc \in Terminal

\* C8: the readiness poll probes at most max_attempts times, stops at the
\* first probe that succeeds, retries after every failed probe but the last,
\* fails with the timeout error iff all max_attempts probes failed, and
\* always terminates.
PollSafe ==
  /\ Len(probe_log) <= max_attempts
  /\ \A i \in 1..(Len(probe_log) - 1) : ~probe_log[i]
  /\ SchedulerReady <=> (probe_log # <<>> /\ probe_log[Len(probe_log)])
  /\ err = "scheduler_timeout" <=>
       (Len(probe_log) = max_attempts /\ \A i \in 1..Len(probe_log) : ~probe_log[i])
  /\ (probe_log # <<>> /\ ~probe_log[Len(probe_log)]
        /\ Len(probe_log) < max_attempts) => pc = "poll"
  /\ pc = "poll" => attempt = Len(probe_log) /\ attempt < max_attempts

C8_PollTerminates == []PollSafe /\ ((pc = "poll") ~> (pc # "poll"))

C8_Witness ==
  /\ SchedulerReady
  /\ Len(probe_log) = max_attempts
  /\ sleeps = max_attempts

\* C9: when launching a worker fails, the failure is reported to the caller
\* and termination is attempted on every handle launched before it and on
\* the scheduler handle.
C9_PartialSpawnFailureCleanedUp ==
  (RunEnded /\ err = "spawn_worker") =>
    /\ raised = "spawn_worker"
    /\ \A i \in 1..Len(worker_procs) : i \in Range(term_log)
    /\ SchedulerId \in Range(term_log)

\* C10: start_scheduler reports the scheduler ready only when the scheduler
\* process it spawned is the one accepting the connection: it fails when the
\* port is already bound by another process.
C10_ReadyOnlyIfOwnScheduler ==
  SchedulerReady => ~port_foreign

-----------------------------------------------------------------------------
(* In-process sessions: measure_cluster_startup under run_timing_study, and
   time_local_cluster *)

NoSession == [cluster |-> "none", client |-> "none", workers |-> 0]

\* The session that runs: run_timing_study is at iteration `run`.
Cur == run + 1

\* The timer does not run.
IdleTimer ==
  /\ pc = "idle"
  /\ n_workers = 0
  /\ output_json = FALSE
  /\ port_foreign = FALSE
  /\ scheduler_proc = "None"
  /\ worker_procs = <<>>
  /\ attempt = 0
  /\ probe_log = <<>>
  /\ sleeps = 0
  /\ clients_open = {}
  /\ results = <<>>
  /\ err = "none"
  /\ raised = "none"
  /\ cleanup_state = "not_called"
  /\ ci = 0
  /\ term_log = <<>>
  /\ cleanup_calls = 0
  /\ clock = 0
  /\ t_marks = <<>>
  /\ result_times = <<>>

\* run_timing_study(n_workers, n_runs) before its first iteration, or
\* time_local_cluster(n_workers, 1, wait_for_workers, output_json) at its start.
InitInProcess ==
  /\ IdleTimer
  /\ IdleStats
  /\ prog \in {"study", "local"}
  /\ ip_n_workers \in 1..MaxWorkers
  /\ n_runs \in IF prog = "study" THEN 0..MaxRuns ELSE {1}
  /\ run = 0
  /\ study_results = <<>>
  /\ n_sessions = 0
  /\ timings = <<>>
  /\ marks = <<>>
  /\ now = 0
  /\ sessions = [k \in 1..n_runs |-> NoSession]
  /\ wait_flag \in IF prog = "local" THEN BOOLEAN ELSE {FALSE}
  /\ ip_output \in IF prog = "local" THEN BOOLEAN ELSE {FALSE}
  /\ ip_raised = "none"
  /\ detailed = FALSE
  /\ exit_code = "none"
  /\ save_state = "none"
  /\ ip_pc = IF prog = "local" THEN "cluster"
             ELSE IF n_runs > 0 THEN "create" ELSE "done"

\* The for statement of run_timing_study goes on to its next iteration, and
\* the function returns `results` after the last one.
NextIteration ==
  /\ run' = run + 1
  /\ ip_pc' = IF run + 1 < n_runs THEN "create" ELSE "done"
  /\ timings' = <<>>
  /\ marks' = <<>>

\* `except Exception as e` of run_timing_study.
ExceptAbortsLoop(msg) ==
  /\ study_results' = Append(study_results, [run |-> run + 1, error |-> msg])
  /\ run' = run + 1
  /\ ip_pc' = "done"
  /\ timings' = <<>>
  /\ marks' = <<>>
  /\ now' = now

Except(msg) ==
  /\ study_results' = Append(study_results, [run |-> run + 1, error |-> msg])
  /\ NextIteration
  /\ now' = now

\* measure_cluster_startup: LocalCluster(n_workers=0, ...).
MeasureCreateCluster ==
  /\ prog \in {"study", "main"}
  /\ ip_pc = "create"
  /\ n_sessions' = n_sessions + 1
  /\ \E ok \in BOOLEAN :
       IF ok
       THEN /\ sessions' = [sessions EXCEPT ![Cur].cluster = "open"]
            /\ now' = now + 1
            /\ marks' = Put(marks, "cluster_start", now)
            /\ timings' = Put(timings, "scheduler_startup", now' - now)
            /\ ip_pc' = "client"
            /\ UNCHANGED <<run, study_results>>
       ELSE /\ Except("cluster_failed")
            /\ UNCHANGED sessions
  /\ UNCHANGED <<prog, timerVars, statsVars, mainVars, ip_n_workers, n_runs, wait_flag, ip_output,
                 ip_raised>>

\* measure_cluster_startup: Client(cluster).
MeasureConnectClient ==
  /\ prog \in {"study", "main"}
  /\ ip_pc = "client"
  /\ \E ok \in BOOLEAN :
       IF ok
       THEN /\ sessions' = [sessions EXCEPT ![Cur].client = "open"]
            /\ now' = now + 1
            /\ timings' = Put(timings, "client_connection", now' - now)
            /\ ip_pc' = "scale"
            /\ UNCHANGED <<run, study_results, marks>>
       ELSE /\ Except("client_failed")
            /\ UNCHANGED sessions
  /\ UNCHANGED <<prog, timerVars, statsVars, mainVars, ip_n_workers, n_runs, n_sessions, wait_flag,
                 ip_output, ip_raised>>

\* measure_cluster_startup: cluster.scale(n_workers) and
\* client.wait_for_workers(n_workers, timeout=60).
MeasureScaleAndWait ==
  /\ prog \in {"study", "main"}
  /\ ip_pc = "scale"
  /\ \E ok \in BOOLEAN, started \in 0..ip_n_workers :
       IF ok
       THEN /\ started = ip_n_workers
            /\ sessions' = [sessions EXCEPT ![Cur].workers = started]
            /\ now' = now + 1
            /\ timings' = Put(timings, "workers_startup", now' - now)
            /\ ip_pc' = "task"
            /\ UNCHANGED <<run, study_results, marks>>
       ELSE /\ sessions' = [sessions EXCEPT ![Cur].workers = started]
            /\ Except("workers_timeout")
  /\ UNCHANGED <<prog, timerVars, statsVars, mainVars, ip_n_workers, n_runs, n_sessions, wait_flag,
                 ip_output, ip_raised>>

\* measure_cluster_startup: the probe task, and total_cluster_ready.
MeasureFirstTask ==
  /\ prog \in {"study", "main"}
  /\ ip_pc = "task"
  /\ \E ok \in BOOLEAN :
       IF ok
       THEN /\ now' = now + 1
            /\ timings' = Put(Put(timings, "first_task_execution", now' - now),
                              "total_cluster_ready", now' - marks["cluster_start"])
            /\ ip_pc' = "info"
            /\ UNCHANGED <<run, study_results, marks>>
       ELSE Except("task_failed")
  /\ UNCHANGED <<prog, timerVars, statsVars, mainVars, ip_n_workers, n_runs, n_sessions, sessions,
                 wait_flag, ip_output, ip_raised>>

\* measure_cluster_startup: scheduler_info(), client.close(), cluster.close()
\* and the return; then the rest of the try block of run_timing_study.
MeasureCloseAndReturn ==
  /\ prog \in {"study", "main"}
  /\ ip_pc = "info"
  /\ \E out \in {"ok", "info_failed", "close_failed"} :
       CASE out = "ok" ->
              /\ sessions' = [sessions EXCEPT ![Cur] =
                                [cluster |-> "closed", client |-> "closed",
                                 workers |-> 0]]
              /\ study_results' =
                   Append(study_results,
                          Put(Put(timings, "actual_workers", sessions[Cur].workers),
                              "run", run + 1))
              /\ now' = IF run < n_runs - 1 THEN now + 1 ELSE now
              /\ NextIteration
         [] out = "info_failed" ->
              /\ Except(out)
              /\ UNCHANGED sessions
         [] out = "close_failed" ->
              /\ Except(out)
              /\ sessions' = [sessions EXCEPT ![Cur].client = "closed"]
  /\ UNCHANGED <<prog, timerVars, statsVars, mainVars, ip_n_workers, n_runs, n_sessions, wait_flag,
                 ip_output, ip_raised>>

\* An exception leaves time_local_cluster.
LocalRaise(msg) == ip_pc' = "raised" /\ ip_raised' = msg

\* time_local_cluster: LocalCluster(n_workers, ...).
LocalCreateCluster ==
  /\ prog = "local"
  /\ ip_pc = "cluster"
  /\ n_sessions' = n_sessions + 1
  /\ \E ok \in BOOLEAN :
       IF ok
       THEN /\ sessions' = [sessions EXCEPT ![1] =
                              [cluster |-> "open", client |-> "none",
                               workers |-> ip_n_workers]]
            /\ now' = now + 1
            /\ marks' = Put(marks, "start_cluster", now)
            /\ timings' = Put(Put(Put(timings, "n_workers", ip_n_workers),
                                  "threads_per_worker", 1),
                              "cluster_init_time", now' - now)
            /\ ip_pc' = "client"
            /\ UNCHANGED ip_raised
       ELSE /\ LocalRaise("cluster_failed")
            /\ UNCHANGED <<sessions, now, marks, timings>>
  /\ UNCHANGED <<prog, timerVars, statsVars, mainVars, ip_n_workers, n_runs, run, study_results,
                 wait_flag, ip_output>>

\* time_local_cluster: Client(cluster).
LocalConnectClient ==
  /\ prog = "local"
  /\ ip_pc = "client"
  /\ \E ok \in BOOLEAN :
       IF ok
       THEN /\ sessions' = [sessions EXCEPT ![1].client = "open"]
            /\ now' = now + 1
            /\ timings' = Put(timings, "client_connect_time", now' - now)
            /\ ip_pc' = "wait"
            /\ UNCHANGED ip_raised
       ELSE /\ LocalRaise("client_failed")
            /\ UNCHANGED <<sessions, now, timings>>
  /\ UNCHANGED <<prog, timerVars, statsVars, mainVars, ip_n_workers, n_runs, run, study_results,
                 n_sessions, marks, wait_flag, ip_output>>

\* time_local_cluster: `if wait_for_workers:` client.wait_for_workers(...,
\* timeout=60); then client.scheduler_info().
LocalWaitAndInfo ==
  /\ prog = "local"
  /\ ip_pc = "wait"
  /\ \E out \in {"ok", "workers_timeout", "info_failed"} :
       /\ out = "workers_timeout" => wait_flag
       /\ IF out = "ok"
          THEN /\ now' = IF wait_flag THEN now + 1 ELSE now
               /\ timings' =
                    Put(IF wait_flag
                        THEN Put(timings, "wait_for_workers_time", now' - now)
                        ELSE timings,
                        "actual_workers", sessions[1].workers)
               /\ ip_pc' = "task"
               /\ UNCHANGED ip_raised
          ELSE /\ LocalRaise(out)
               /\ UNCHANGED <<now, timings>>
  /\ UNCHANGED <<prog, timerVars, statsVars, mainVars, ip_n_workers, n_runs, run, study_results,
                 n_sessions, marks, sessions, wait_flag, ip_output>>

\* time_local_cluster: the probe task, and total_time.
LocalFirstTask ==
  /\ prog = "local"
  /\ ip_pc = "task"
  /\ \E ok \in BOOLEAN :
       IF ok
       THEN /\ now' = now + 1
            /\ timings' = Put(Put(timings, "first_task_time", now' - now),
                              "total_time", now' - marks["start_cluster"])
            /\ ip_pc' = "save"
            /\ UNCHANGED ip_raised
       ELSE /\ LocalRaise("task_failed")
            /\ UNCHANGED <<now, timings>>
  /\ UNCHANGED <<prog, timerVars, statsVars, mainVars, ip_n_workers, n_runs, run, study_results,
                 n_sessions, marks, sessions, wait_flag, ip_output>>

\* time_local_cluster: `if output_json:` json.dump(results, f); then
\* client.close(), cluster.close() and the return.
LocalSaveAndClose ==
  /\ prog = "local"
  /\ ip_pc = "save"
  /\ \E out \in {"ok", "save_failed", "close_failed"} :
       /\ out = "save_failed" => ip_output
       /\ CASE out = "ok" ->
                 /\ sessions' = [sessions EXCEPT ![1] =
                                   [cluster |-> "closed", client |-> "closed",
                                    workers |-> 0]]
                 /\ ip_pc' = "returned"
                 /\ UNCHANGED ip_raised
            [] out = "save_failed" ->
                 /\ LocalRaise(out)
                 /\ UNCHANGED sessions
            [] out = "close_failed" ->
                 /\ LocalRaise(out)
                 /\ sessions' = [sessions EXCEPT ![1].client = "closed"]
  /\ UNCHANGED <<prog, timerVars, statsVars, mainVars, ip_n_workers, n_runs, run, study_results,
                 n_sessions, timings, marks, now, wait_flag, ip_output>>

NextInProcess ==
  \/ MeasureCreateCluster
  \/ MeasureConnectClient
  \/ MeasureScaleAndWait
  \/ MeasureFirstTask
  \/ MeasureCloseAndReturn
  \/ LocalCreateCluster
  \/ LocalConnectClient
  \/ LocalWaitAndInfo
  \/ LocalFirstTask
  \/ LocalSaveAndClose

SpecInProcess == InitInProcess /\ [][NextInProcess]_vars

\* The argument check of main() with the test of args.workers left out.
ValidArgsRunsOnly(workers, runs) == runs >= 1

\* main(): `if args.workers < 1` and `if args.runs < 1`.
ValidArgs(workers, runs) == workers >= 1 /\ runs >= 1

\* valid_runs = len([r for r in results if 'error' not in r])
ValidRuns(rs) == Cardinality({i \in 1..Len(rs) : "error" \notin DOMAIN rs[i]})

\* The dask_timing_study command after parse_args(); --workers and --runs
\* are any integers, 0 stands for the values below 1.
InitMain ==
  /\ IdleTimer
  /\ IdleStats
  /\ prog = "main"
  /\ ip_n_workers \in 0..MaxWorkers
  /\ n_runs \in 0..MaxRuns
  /\ run = 0
  /\ study_results = <<>>
  /\ n_sessions = 0
  /\ timings = <<>>
  /\ marks = <<>>
  /\ now = 0
  /\ sessions = [k \in 1..n_runs |-> NoSession]
  /\ wait_flag = FALSE
  /\ ip_output \in BOOLEAN
  /\ ip_raised = "none"
  /\ detailed \in BOOLEAN
  /\ exit_code = "none"
  /\ save_state = "none"
  /\ ip_pc = "validate"

\* main(): the validation of the arguments, then the call of
\* run_timing_study.
MainValidate ==
  /\ prog = "main"
  /\ ip_pc = "validate"
  /\ IF ValidArgs(ip_n_workers, n_runs)
     THEN /\ ip_pc' = IF n_runs > 0 THEN "create" ELSE "done"
          /\ exit_code' = exit_code
     ELSE /\ ip_pc' = "exited"
          /\ exit_code' = "1"
  /\ UNCHANGED <<prog, timerVars, statsVars, ip_n_workers, n_runs, run, study_results,
                 n_sessions, timings, marks, now, sessions, wait_flag, ip_output,
                 ip_raised, detailed, save_state>>

\* main(): the statistics, print_results and, with --detailed,
\* measure_scheduler_info, which starts a cluster of its own and whose
\* exceptions main() catches.
MainReport ==
  /\ prog = "main"
  /\ ip_pc = "done"
  /\ n_sessions' = IF detailed THEN n_sessions + 1 ELSE n_sessions
  /\ ip_pc' = "save"
  /\ UNCHANGED <<prog, timerVars, statsVars, ip_n_workers, n_runs, run, study_results,
                 timings, marks, now, sessions, wait_flag, ip_output, ip_raised,
                 mainVars>>

\* main(): the write of the --output file, sys.exit(1) when it fails; then
\* sys.exit(1) when no run is valid, and the normal end otherwise.
MainSaveAndExit ==
  /\ prog = "main"
  /\ ip_pc = "save"
  /\ ip_pc' = "exited"
  /\ \E written \in BOOLEAN :
       IF ip_output /\ ~written
       THEN /\ save_state' = "failed"
            /\ exit_code' = "1"
       ELSE /\ save_state' = IF ip_output THEN "saved" ELSE "none"
            /\ exit_code' = IF ValidRuns(study_results) = 0 THEN "1" ELSE "0"
  /\ UNCHANGED <<prog, timerVars, statsVars, ip_n_workers, n_runs, run, study_results,
                 n_sessions, timings, marks, now, sessions, wait_flag, ip_output,
                 ip_raised, detailed>>

NextMain ==
  \/ MainValidate
  \/ MeasureCreateCluster
  \/ MeasureConnectClient
  \/ MeasureScaleAndWait
  \/ MeasureFirstTask
  \/ MeasureCloseAndReturn
  \/ MainReport
  \/ MainSaveAndExit

SpecMain == InitMain /\ [][NextMain]_vars

-----------------------------------------------------------------------------
(* Claims about the in-process sessions *)

\* A cluster, a client or a worker process of session k is alive.
SessionAlive(k) ==
  \/ sessions[k].cluster = "open"
  \/ sessions[k].client = "open"
  \/ sessions[k].workers > 0

\* The sessions that have ended.
EndedSessions ==
  IF prog = "study" THEN 1..run
  ELSE IF prog = "local" /\ ip_pc \in {"returned", "raised"} THEN {1}
  ELSE {}

\* C2: once an in-process session has ended, by a return or by an exception,
\* the cluster and the client it created are closed.
C2_InProcessSessionReleasesResources ==
  \A k \in EndedSessions :
    sessions[k].cluster # "open" /\ sessions[k].client # "open"

SuccessKeys == {"run", "scheduler_startup", "client_connection",
                "workers_startup", "first_task_execution",
                "total_cluster_ready", "actual_workers"}

ErrorKeys == {"run", "error"}

\* C5: run_timing_study performs exactly n_runs sessions whatever subset of
\* them fails, and the i-th entry of its result carries run index i and is
\* either a complete timing record without `error` or a record of the run
\* index and the failure message only.
C5_OneRecordPerRun ==
  prog = "study" =>
    /\ Len(study_results) = run
    /\ run <= n_runs
    /\ ip_pc = "done" <=> run = n_runs
    /\ ip_pc = "done" => n_sessions = n_runs
    /\ \A i \in 1..Len(study_results) :
         /\ study_results[i]["run"] = i
         /\ DOMAIN study_results[i] \in {SuccessKeys, ErrorKeys}

C5_Witness ==
  /\ prog = "study"
  /\ ip_pc = "done"
  /\ n_runs = 3
  /\ DOMAIN study_results[1] = ErrorKeys
  /\ DOMAIN study_results[2] = SuccessKeys
  /\ DOMAIN study_results[3] = ErrorKeys

\* C6: when a session of run_timing_study starts creating its cluster, no
\* cluster, client or worker process of an earlier session is alive.
C6_SessionsNeverOverlap ==
  (prog = "study" /\ ip_pc = "create") => \A k \in 1..run : ~SessionAlive(k)

-----------------------------------------------------------------------------
(* Aggregation: calculate_statistics, analyze_results, compare_configs.
   A real number is the pair <<numerator, denominator>> of a fraction. *)

WorkerCounts == {1, 2}
ThreadCounts == {1}
TotalTimes == {1, 3}

\* A result: n_workers and threads_per_worker, and optionally total_time and
\* error.
\* `times` is empty, or holds the total_time.
MakeResult(w, t, times, failed) ==
  LET base == [n_workers |-> w, threads_per_worker |-> t]
      timed == IF times = {} THEN base
               ELSE Put(base, "total_time", CHOOSE tt \in times : TRUE)
  IN IF failed THEN Put(timed, "error", "failed") ELSE timed

RunResults ==
  {MakeResult(w, t, times, failed) :
     w \in WorkerCounts, t \in ThreadCounts,
     times \in {{}} \cup {{tt} : tt \in TotalTimes}, failed \in BOOLEAN}

\* The fields of a result that hold a number (not `error`).
NumericFields == {"n_workers", "threads_per_worker", "total_time"}

RECURSIVE Sum(_)
Sum(s) == IF s = <<>> THEN 0 ELSE s[1] + Sum(Tail(s))

RECURSIVE SelectResults(_, _)
\* [r for r in results if r in keep]
SelectResults(rs, keep) ==
  IF rs = <<>> THEN <<>>
  ELSE (IF rs[1] \in keep THEN <<rs[1]>> ELSE <<>>) \o SelectResults(Tail(rs), keep)

RECURSIVE ValuesOf(_, _)
\* [r[key] for r in results if key in r]
ValuesOf(rs, key) ==
  IF rs = <<>> THEN <<>>
  ELSE (IF key \in DOMAIN rs[1] THEN <<rs[1][key]>> ELSE <<>>)
         \o ValuesOf(Tail(rs), key)

MinOf(values) == CHOOSE x \in Range(values) : \A y \in Range(values) : x <= y
MaxOf(values) == CHOOSE x \in Range(values) : \A y \in Range(values) : x >= y

\* sum((x - mean) ** 2 for x in values), with mean = Sum(values) / n, as a
\* fraction.
SquaredDeviations(values) ==
  LET n == Len(values)
      dev == [i \in 1..n |-> (n * values[i] - Sum(values)) * (n * values[i] - Sum(values))]
  IN <<Sum(dev), n * n>>

\* valid_results = [r for r in results if 'error' not in r]
ValidResults(rs) == SelectResults(rs, {r \in Range(rs) : "error" \notin DOMAIN r})

\* calculate_statistics(results); std_dev is given by its square.
CalculateStatisticsOf(rs) ==
  LET valid == ValidResults(rs) IN
  IF valid = <<>> THEN <<>>
  ELSE LET timing_keys == (DOMAIN valid[1]) \ {"run", "actual_workers", "error"}
           kept == {key \in timing_keys : ValuesOf(valid, key) # <<>>}
       IN [key \in kept |->
             LET values == ValuesOf(valid, key) IN
               [mean |-> <<Sum(values), Len(values)>>,
                min |-> MinOf(values),
                max |-> MaxOf(values),
                count |-> Len(values),
                variance |-> IF Len(values) > 1
                             THEN <<SquaredDeviations(values)[1],
                                    SquaredDeviations(values)[2] * Len(values)>>
                             ELSE <<0, 1>>]]

\* key = (result.get('n_workers'), result.get('threads_per_worker'))
ConfigKey(r) == <<r["n_workers"], r["threads_per_worker"]>>

\* by_config[key]
ConfigResults(rs, key) == SelectResults(rs, {r \in Range(rs) : ConfigKey(r) = key})

ConfigKeys(rs) == {ConfigKey(r) : r \in Range(rs)}

KeyLess(a, b) == a[1] < b[1] \/ (a[1] = b[1] /\ a[2] < b[2])

RECURSIVE SortedKeys(_)
\* the keys of sorted(by_config.items())
SortedKeys(keys) ==
  IF keys = {} THEN <<>>
  ELSE LET first == CHOOSE k \in keys : \A other \in keys \ {k} : KeyLess(k, other)
       IN <<first>> \o SortedKeys(keys \ {first})

RECURSIVE MetricValues(_, _)
\* metrics[key] of analyze_results: the values of every result of the group
\* that holds a number under `key`.
MetricValues(rs, key) ==
  IF rs = <<>> THEN <<>>
  ELSE (IF key \in DOMAIN rs[1] /\ key \in NumericFields
        THEN <<rs[1][key]>> ELSE <<>>) \o MetricValues(Tail(rs), key)

\* statistics.median, for values of length 1 or more.
MedianOf(values) ==
  LET n == Len(values)
      sorted == CHOOSE s \in [1..n -> Range(values)] :
                  /\ \A i \in 1..(n - 1) : s[i] <= s[i + 1]
                  /\ \A x \in Range(values) :
                       Cardinality({i \in 1..n : s[i] = x})
                         = Cardinality({i \in 1..n : values[i] = x})
  IN IF n % 2 = 1 THEN <<sorted[(n + 1) \div 2], 1>>
     ELSE <<sorted[n \div 2] + sorted[n \div 2 + 1], 2>>

\* What analyze_results prints for the values of one metric; stdev is given
\* by its square (statistics.stdev divides by n - 1).
MetricReport(values) ==
  IF Len(values) > 1
  THEN [values |-> values,
        mean |-> <<Sum(values), Len(values)>>,
        variance |-> <<SquaredDeviations(values)[1],
                       SquaredDeviations(values)[2] * (Len(values) - 1)>>,
        median |-> MedianOf(values),
        min |-> MinOf(values),
        max |-> MaxOf(values)]
  ELSE [values |-> values]

\* The per-configuration part of analyze_results(results).
AnalyzeResultsOf(rs) ==
  [key \in ConfigKeys(rs) |->
     LET config_results == ConfigResults(rs, key)
         names == {m \in UNION {DOMAIN r : r \in Range(config_results)} :
                     MetricValues(config_results, m) # <<>>}
     IN [m \in names |-> MetricReport(MetricValues(config_results, m))]]

\* all_total_times = [r['total_time'] for r in results if 'total_time' in r]
OverallTimesOf(rs) == ValuesOf(rs, "total_time")

FracLess(a, b) == a[1] * b[2] < b[1] * a[2]

RECURSIVE InsertBeforeEqual(_, _)
\* An insertion that puts a row before the rows of equal avg_time: the sort
\* built on it is not stable.
InsertBeforeEqual(c, s) ==
  IF s = <<>> THEN <<c>>
  ELSE IF ~FracLess(s[1].avg_time, c.avg_time) THEN <<c>> \o s
  ELSE <<s[1]>> \o InsertBeforeEqual(c, Tail(s))

RECURSIVE InsertByAvgTime(_, _)
InsertByAvgTime(c, s) ==
  IF s = <<>> THEN <<c>>
  ELSE IF FracLess(c.avg_time, s[1].avg_time) THEN <<c>> \o s
  ELSE <<s[1]>> \o InsertByAvgTime(c, Tail(s))

RECURSIVE SortByAvgTime(_)
\* configs.sort(key=lambda x: x['avg_time']): a stable sort.
SortByAvgTime(s) ==
  IF s = <<>> THEN <<>>
  ELSE InsertByAvgTime(s[Len(s)], SortByAvgTime(SubSeq(s, 1, Len(s) - 1)))

RECURSIVE ConfigRows(_, _)
\* The loop of compare_configs over sorted(by_config.items()).
ConfigRows(rs, keys) ==
  IF keys = <<>> THEN <<>>
  ELSE LET total_times == ValuesOf(ConfigResults(rs, keys[1]), "total_time")
       IN (IF total_times # <<>>
           THEN <<[n_workers |-> keys[1][1],
                   threads_per_worker |-> keys[1][2],
                   avg_time |-> <<Sum(total_times), Len(total_times)>>,
                   runs |-> Len(total_times)]>>
           ELSE <<>>) \o ConfigRows(rs, Tail(keys))

\* compare_configs(results): the rows it prints, none when there are fewer
\* than two configurations.
CompareConfigsOf(rs) ==
  IF Cardinality(ConfigKeys(rs)) < 2 THEN <<>>
  ELSE SortByAvgTime(ConfigRows(rs, SortedKeys(ConfigKeys(rs))))

InitStats ==
  /\ prog = "stats"
  /\ IdleTimer
  /\ IdleInProcess
  /\ in_results \in UNION {[1..n -> RunResults] : n \in 0..MaxResults}
  /\ stats_done = {}
  /\ statistics = <<>>
  /\ analysis = <<>>
  /\ overall = <<>>
  /\ ranking = <<>>

CalculateStatistics ==
  /\ prog = "stats"
  /\ "calculate_statistics" \notin stats_done
  /\ stats_done' = stats_done \cup {"calculate_statistics"}
  /\ statistics' = CalculateStatisticsOf(in_results)
  /\ UNCHANGED <<prog, timerVars, ipVars, in_results, analysis, overall, ranking>>

\* analyze_results prints "No results to analyze" for an empty collection.
AnalyzeResults ==
  /\ prog = "stats"
  /\ "analyze_results" \notin stats_done
  /\ stats_done' = stats_done \cup {"analyze_results"}
  /\ analysis' = AnalyzeResultsOf(in_results)
  /\ overall' = OverallTimesOf(in_results)
  /\ UNCHANGED <<prog, timerVars, ipVars, in_results, statistics, ranking>>

CompareConfigs ==
  /\ prog = "stats"
  /\ "compare_configs" \notin stats_done
  /\ stats_done' = stats_done \cup {"compare_configs"}
  /\ ranking' = CompareConfigsOf(in_results)
  /\ UNCHANGED <<prog, timerVars, ipVars, in_results, statistics, analysis, overall>>

NextStats ==
  \/ CalculateStatistics
  \/ AnalyzeResults
  \/ CompareConfigs

SpecStats == InitStats /\ [][NextStats]_vars

\* Results of completed sessions (none has `error`), of configurations that
\* differ in n_workers and in threads_per_worker.
CompletedThreadCounts == {1, 2}

CompletedResults ==
  {MakeResult(w, t, times, FALSE) :
     w \in WorkerCounts, t \in CompletedThreadCounts,
     times \in {{}} \cup {{tt} : tt \in TotalTimes}}

InitCompleted ==
  /\ prog = "stats"
  /\ IdleTimer
  /\ IdleInProcess
  /\ in_results \in UNION {[1..n -> CompletedResults] : n \in 0..MaxResults}
  /\ stats_done = {}
  /\ statistics = <<>>
  /\ analysis = <<>>
  /\ overall = <<>>
  /\ ranking = <<>>

SpecCompleted == InitCompleted /\ [][NextStats]_vars

\* compare_configs alone on the results of completed sessions.
SpecCompare == InitCompleted /\ [][CompareConfigs]_vars

-----------------------------------------------------------------------------
(* Claims about the aggregation *)

\* The results of the collection that have no `error`.
NonErrorResults == ValidResults(in_results)

\* C7: a result that has `error` set contributes to no aggregate of
\* calculate_statistics, analyze_results and compare_configs: each reports
\* what it reports for the collection without the results that have `error`.
C7_ErrorResultsExcluded ==
  /\ "calculate_statistics" \in stats_done =>
       statistics = CalculateStatisticsOf(NonErrorResults)
  /\ "analyze_results" \in stats_done =>
       \A key \in DOMAIN analysis : \A m \in DOMAIN analysis[key] :
         analysis[key][m].values
           = MetricValues(ConfigResults(NonErrorResults, key), m)
  /\ "compare_configs" \in stats_done =>
       \A i \in 1..Len(ranking) :
         ranking[i].runs =
           Len(ValuesOf(ConfigResults(NonErrorResults,
                                      <<ranking[i].n_workers,
                                        ranking[i].threads_per_worker>>),
                        "total_time"))

\* The values of metric m that the results without `error` report.
ReportedValues(rs, m) == ValuesOf(ValidResults(rs), m)

\* C12: every numeric metric that at least one result without `error` of a
\* group reports gets an aggregate, computed over exactly the results without
\* `error` that report it, whichever result comes first in the group.
C12_RaggedMetricsAggregated ==
  /\ "calculate_statistics" \in stats_done =>
       \A m \in NumericFields :
         ReportedValues(in_results, m) # <<>> =>
           /\ m \in DOMAIN statistics
           /\ statistics[m].count = Len(ReportedValues(in_results, m))
  /\ "analyze_results" \in stats_done =>
       \A key \in ConfigKeys(NonErrorResults) : \A m \in NumericFields :
         LET reported == ReportedValues(ConfigResults(in_results, key), m) IN
           reported # <<>> =>
             /\ key \in DOMAIN analysis
             /\ m \in DOMAIN analysis[key]
             /\ analysis[key][m].values = reported

\* Equality of two fractions.
FracEq(a, b) == a[1] * b[2] = b[1] * a[2]

\* The square of the population standard deviation of the values: the sum of
\* the squared deviations divided by the count, 0 for one value.
PopulationVariance(values) ==
  IF Len(values) > 1
  THEN <<SquaredDeviations(values)[1], SquaredDeviations(values)[2] * Len(values)>>
  ELSE <<0, 1>>

\* C13: for every group and metric the aggregate is the reference statistics
\* of the contributing values: their count, mean, median, min and max, and
\* the population standard deviation; calculate_statistics and
\* analyze_results report the same quantities for the same values.
C13_AggregatesMatchReference ==
  /\ "calculate_statistics" \in stats_done =>
       \A m \in DOMAIN statistics :
         LET values == ReportedValues(in_results, m) IN
           /\ statistics[m].count = Len(values)
           /\ FracEq(statistics[m].mean, <<Sum(values), Len(values)>>)
           /\ statistics[m].min = MinOf(values)
           /\ statistics[m].max = MaxOf(values)
           /\ FracEq(statistics[m].variance, PopulationVariance(values))
  /\ "analyze_results" \in stats_done =>
       \A key \in DOMAIN analysis : \A m \in DOMAIN analysis[key] :
         LET values == analysis[key][m].values IN
           Len(values) > 1 =>
             /\ FracEq(analysis[key][m].mean, <<Sum(values), Len(values)>>)
             /\ FracEq(analysis[key][m].median, MedianOf(values))
             /\ analysis[key][m].min = MinOf(values)
             /\ analysis[key][m].max = MaxOf(values)
             /\ FracEq(analysis[key][m].variance, PopulationVariance(values))

\* The same results in every input order.
InputOrders(rs) ==
  {[i \in 1..Len(rs) |-> rs[p[i]]] : p \in Permutations(1..Len(rs))}

\* The configurations that have at least one total_time.
TimedKeys(rs) ==
  {key \in ConfigKeys(rs) : ValuesOf(ConfigResults(rs, key), "total_time") # <<>>}

RowKey(row) == <<row.n_workers, row.threads_per_worker>>

\* C14: compare_configs ranks the configurations in ascending order of their
\* mean total_time; configurations of equal mean keep the order of their key
\* (n_workers, then threads_per_worker), so the ranking is the same for every
\* input order of the same results; with fewer than two distinct keys the
\* output is empty.
C14_RankingAscendingStable ==
  "compare_configs" \in stats_done =>
    /\ Cardinality(ConfigKeys(in_results)) < 2 => ranking = <<>>
    /\ Cardinality(ConfigKeys(in_results)) >= 2 =>
         /\ {RowKey(ranking[i]) : i \in 1..Len(ranking)} = TimedKeys(in_results)
         /\ Len(ranking) = Cardinality(TimedKeys(in_results))
    /\ \A i \in 1..Len(ranking) :
         LET total_times == ValuesOf(ConfigResults(in_results, RowKey(ranking[i])),
                                     "total_time")
         IN FracEq(ranking[i].avg_time, <<Sum(total_times), Len(total_times)>>)
    /\ \A i, j \in 1..Len(ranking) :
         i < j =>
           /\ ~FracLess(ranking[j].avg_time, ranking[i].avg_time)
           /\ FracEq(ranking[i].avg_time, ranking[j].avg_time) =>
                KeyLess(RowKey(ranking[i]), RowKey(ranking[j]))
    /\ \A rs \in InputOrders(in_results) : CompareConfigsOf(rs) = ranking

\* Two configurations of equal mean were ranked, and the results of the
\* greater key came first in the input.
C14_Witness ==
  /\ "compare_configs" \in stats_done
  /\ Len(in_results) >= 2
  /\ KeyLess(ConfigKey(in_results[2]), ConfigKey(in_results[1]))
  /\ \E i, j \in 1..Len(ranking) :
       /\ i < j
       /\ FracEq(ranking[i].avg_time, ranking[j].avg_time)
       /\ RowKey(ranking[i]) = ConfigKey(in_results[2])
       /\ RowKey(ranking[j]) = ConfigKey(in_results[1])

\* The worker count or the run count given to the command is below 1.
InvalidCount == ip_n_workers < 1 \/ n_runs < 1

\* C15, as stated: dask_timing_study exits with code 0 whenever at least one
\* run succeeded, and with code 1 when all runs failed or a count is below 1;
\* an invalid count is rejected before any session is started.
C15_ExitCodes ==
  /\ (prog = "main" /\ ip_pc = "exited") =>
       /\ ValidRuns(study_results) >= 1 => exit_code = "0"
       /\ (ValidRuns(study_results) = 0 \/ InvalidCount) => exit_code = "1"
  /\ (prog = "main" /\ InvalidCount) => n_sessions = 0

\* C15, amended: dask_timing_study exits with code 0 exactly when at least
\* one run succeeded and the write of the --output file, if one was asked
\* for, did not fail; it exits with code 1 otherwise: when all runs failed,
\* when the write failed, or when a count is below 1. An invalid count is
\* rejected before any session is started.
C15_ExitCodesUnlessSaveFails ==
  /\ (prog = "main" /\ ip_pc = "exited") =>
       /\ exit_code \in {"0", "1"}
       /\ exit_code = "0" <=>
            (ValidRuns(study_results) >= 1 /\ save_state # "failed")
       /\ InvalidCount => exit_code = "1"
  /\ (prog = "main" /\ ip_pc # "exited") => exit_code = "none"
  /\ (prog = "main" /\ InvalidCount) => (n_sessions = 0 /\ study_results = <<>>)

\* A run succeeded and another failed, the write of the --output file
\* failed, and the command has exited.
C15_Witness ==
  /\ prog = "main"
  /\ ip_pc = "exited"
  /\ ValidRuns(study_results) >= 1
  /\ ValidRuns(study_results) < Len(study_results)
  /\ save_state = "failed"
  /\ exit_code = "1"

\* C16: in a SchedulerWorkerTimer session every control client that was
\* opened is closed before the termination of the processes begins, on every
\* exit path: none is open once cleanup() has been entered, nor when run()
\* returns or raises.
C16_ClientsClosedBeforeTermination ==
  /\ (prog = "timer" /\ cleanup_state # "not_called") => clients_open = {}
  /\ (prog = "timer" /\ RunEnded) => clients_open = {}

\* C17: cleanup() attempts the termination of the owned handles in reverse
\* spawn order: the worker spawned last first, the worker spawned first last
\* among the workers, and the scheduler, spawned before them, after every
\* worker. Worker i is the i-th spawned, the scheduler is handle SchedulerId.
C17_ReverseSpawnOrder ==
  prog = "timer" =>
    \A i, j \in 1..Len(term_log) : i < j => term_log[i] > term_log[j]

\* C18: in the readiness poll of start_scheduler the interval sleep happens
\* only between consecutive probe attempts: when the probe succeeds on its
\* k-th attempt exactly k-1 sleeps have been performed, and a probe that
\* succeeds on the first attempt is not preceded by any sleep.
C18_SleepsOnlyBetweenAttempts ==
  (prog = "timer" /\ probe_log # <<>> /\ probe_log[Len(probe_log)]) =>
    sleeps = Len(probe_log) - 1

\* C19: in every successful session total_time is the time elapsed from the
\* start of step 1 (scheduler or cluster start) to the completion of the
\* single probe task: it covers no work performed after the result of the
\* probe task has been received. This holds alike for SchedulerWorkerTimer.run
\* (total_time), measure_cluster_startup (total_cluster_ready, read when the
\* probe task has just completed) and time_local_cluster (total_time).
C19_TotalTimeEndsAtProbeTask ==
  /\ (prog = "timer" /\ "total_time" \in DOMAIN result_times) =>
       result_times["total_time"] = t_marks["end_time"] - t_marks["overall_start"]
  /\ (prog \in {"study", "main"} /\ ip_pc = "info") =>
       timings["total_cluster_ready"] = now - marks["cluster_start"]
  /\ (prog = "local" /\ ip_pc = "save") =>
       timings["total_time"] = now - marks["start_cluster"]

====
